---- MODULE Spec2Model ----
(***************************************************************************)
(* Session lifecycle controller of the voice assistant front end           *)
(* (frontend/src/App.jsx, MainApp).                                        *)
(*                                                                         *)
(* MainApp is a React function component.  Its useState values and useRef  *)
(* cells are the variables below.  Every call of connect() is an "attempt" *)
(* a \in Attempts: the closure of that call (and of the timer callbacks    *)
(* and room listeners it creates) sees the values isConnected,             *)
(* isConnecting, livekitUrl and livekitToken of the render the call was    *)
(* made from, for its whole life; cap[a] holds those captured values.      *)
(* Each attempt creates at most one Room, so a Room is named by the        *)
(* attempt that created it.                                                *)
(***************************************************************************)
EXTENDS Integers, Sequences, FiniteSets, TLC

\* Bounds of the model: calls of connect(), audio tracks the agent publishes,
\* and sessions the host holds one after another in SpecMedia
MaxAttempts == 2
MaxTracks == 2
MaxSessions == 1
MaxPackets == 2
MaxLogs == 60
\* Retries of the transport's reconnection the policy is asked about
MaxRetries == 20

Attempts == 1..MaxAttempts
Tracks == 1..MaxTracks

VARIABLES
    isConnected, isConnecting, connectionStep, isMuted, status,
    livekitUrl, livekitToken, agentReady, audioPlaying, connectionState,
    roomRef, reconnectTimeoutRef, connectionTimeoutRef,
    analyserRef, analyserSourceRef,
    mediaDevices, LivekitClient,
    nAttempts, pc, cap, roomSt, listeners, mic, agentIn,
    connTimer, reconTimer, presetTimers,
    nTracks, trackRoom, tapsConnected, pub,
    memoryIndicator, toolIndicator, memoryFallback,
    memTimers, toolTimers, nPackets,
    debugLog, nLogs,
    retryContext, retryDelay,
    hist, last

vars == << isConnected, isConnecting, connectionStep, isMuted, status,
           livekitUrl, livekitToken, agentReady, audioPlaying, connectionState,
           roomRef, reconnectTimeoutRef, connectionTimeoutRef,
           analyserRef, analyserSourceRef,
           mediaDevices, LivekitClient,
           nAttempts, pc, cap, roomSt, listeners, mic, agentIn,
           connTimer, reconTimer, presetTimers,
           nTracks, trackRoom, tapsConnected, pub,
           memoryIndicator, toolIndicator, memoryFallback,
           memTimers, toolTimers, nPackets,
           debugLog, nLogs,
           retryContext, retryDelay,
           hist, last >>

\* No call of the reconnect policy yet
NoContext == [ retryCount |-> -1, elapsedMs |-> 0 ]

\* The values a call of connect() closes over, before there is any
NoCap == [ isConnected |-> FALSE, isConnecting |-> FALSE,
           livekitUrl |-> "", livekitToken |-> "" ]

\* Book-keeping of an attempt: overlap, it began while another attempt was in
\* flight; stale, a teardown ran while it was suspended.
NoHist == [ overlap |-> FALSE, stale |-> FALSE ]

\* The state as one record, so that a handler is the composition of the
\* calls it makes, in the order the code makes them.
Cur ==
    [ isConnected |-> isConnected, isConnecting |-> isConnecting,
      connectionStep |-> connectionStep, isMuted |-> isMuted, status |-> status,
      livekitUrl |-> livekitUrl, livekitToken |-> livekitToken,
      agentReady |-> agentReady, audioPlaying |-> audioPlaying,
      connectionState |-> connectionState,
      roomRef |-> roomRef, reconnectTimeoutRef |-> reconnectTimeoutRef,
      connectionTimeoutRef |-> connectionTimeoutRef,
      analyserRef |-> analyserRef, analyserSourceRef |-> analyserSourceRef,
      mediaDevices |-> mediaDevices, LivekitClient |-> LivekitClient,
      nAttempts |-> nAttempts, pc |-> pc, cap |-> cap, roomSt |-> roomSt,
      listeners |-> listeners, mic |-> mic,
      agentIn |-> agentIn, connTimer |-> connTimer, reconTimer |-> reconTimer,
      presetTimers |-> presetTimers,
      nTracks |-> nTracks, trackRoom |-> trackRoom,
      tapsConnected |-> tapsConnected, pub |-> pub,
      memoryIndicator |-> memoryIndicator, toolIndicator |-> toolIndicator,
      memoryFallback |-> memoryFallback,
      memTimers |-> memTimers, toolTimers |-> toolTimers, nPackets |-> nPackets,
      hist |-> hist ]

\* An attempt nothing can resume or call back any more: its closure is
\* garbage, and the model forgets what it captured.
Dead(s, a) ==
    /\ s.pc[a] = "done"
    /\ s.roomSt[a] \in { "none", "closed" }
    /\ ~s.listeners[a]
    /\ ~s.mic[a]
    /\ ~s.connTimer[a]
    /\ ~s.reconTimer[a]

forget(s) ==
    [ s EXCEPT !.cap = [ a \in Attempts |-> IF Dead(s, a) THEN NoCap ELSE s.cap[a] ],
               !.hist = [ a \in Attempts |-> IF Dead(s, a) THEN NoHist ELSE s.hist[a] ] ]

Assign(s) ==
    /\ isConnected' = s.isConnected
    /\ isConnecting' = s.isConnecting
    /\ connectionStep' = s.connectionStep
    /\ isMuted' = s.isMuted
    /\ status' = s.status
    /\ livekitUrl' = s.livekitUrl
    /\ livekitToken' = s.livekitToken
    /\ agentReady' = s.agentReady
    /\ audioPlaying' = s.audioPlaying
    /\ connectionState' = s.connectionState
    /\ roomRef' = s.roomRef
    /\ reconnectTimeoutRef' = s.reconnectTimeoutRef
    /\ connectionTimeoutRef' = s.connectionTimeoutRef
    /\ analyserRef' = s.analyserRef
    /\ analyserSourceRef' = s.analyserSourceRef
    /\ mediaDevices' = s.mediaDevices
    /\ LivekitClient' = s.LivekitClient
    /\ nAttempts' = s.nAttempts
    /\ pc' = s.pc
    /\ cap' = s.cap
    /\ roomSt' = s.roomSt
    /\ listeners' = s.listeners
    /\ mic' = s.mic
    /\ agentIn' = s.agentIn
    /\ connTimer' = s.connTimer
    /\ reconTimer' = s.reconTimer
    /\ presetTimers' = s.presetTimers
    /\ nTracks' = s.nTracks
    /\ trackRoom' = s.trackRoom
    /\ tapsConnected' = s.tapsConnected
    /\ pub' = s.pub
    /\ memoryIndicator' = s.memoryIndicator
    /\ toolIndicator' = s.toolIndicator
    /\ memoryFallback' = s.memoryFallback
    /\ memTimers' = s.memTimers
    /\ toolTimers' = s.toolTimers
    /\ nPackets' = s.nPackets
    /\ hist' = s.hist

\* The step to the state s.  The debug log is followed on its own, by
\* LogCall below: nothing reads it, and the steps of a session leave it out.
Commit(s) ==
    Assign(forget(s)) /\ UNCHANGED << debugLog, nLogs, retryContext, retryDelay >>

\* Array.prototype.slice(start) with a negative start: the last -start
\* elements, or the whole array when it has fewer
slice(prev, start) ==
    LET from == IF Len(prev) + start < 0 THEN 0 ELSE Len(prev) + start
    IN  SubSeq(prev, from + 1, Len(prev))

\* The debugLog that log(message) sets; logEntry is the timestamped line
log(prev, logEntry) == Append(slice(prev, -50), logEntry)

\* Book-keeping: what the last step was, for the steps a property below is
\* about; for a teardown or a timer, also the coarse status it started from,
\* the analysis tap that was connected and whether a reconnect timer was
\* pending; for a token response, the status type generateToken had set when
\* it returned (mid) and whether connect() then found its URL or its token
\* empty (missing); for a data packet, its payload.
NoType == [ k |-> "absent", v |-> << >> ]

NoPacket == [ json |-> FALSE, kind |-> "-", type |-> NoType,
              message |-> "", tool |-> "", name |-> "" ]

NoLast == [ op |-> "-", a |-> 0, arg |-> "", preType |-> "-", preConnected |-> FALSE,
            tap |-> 0, preTimer |-> FALSE, mid |-> "-", missing |-> FALSE,
            packet |-> NoPacket ]

Other == last' = NoLast

Did(op, a, arg) ==
    last' = [ NoLast EXCEPT !.op = op, !.a = a, !.arg = arg ]

DidFrom(op, a, arg) ==
    last' = [ NoLast EXCEPT
              !.op = op, !.a = a, !.arg = arg,
              !.preType = status.type, !.preConnected = isConnected,
              !.tap = IF analyserRef \in tapsConnected THEN analyserRef ELSE 0,
              !.preTimer = \E b \in Attempts : reconTimer[b] ]

----------------------------------------------------------------------------
\* useState initial value of connectionState
initialConnectionState ==
    [ tokenGenerated |-> FALSE, roomConnected |-> FALSE, agentJoined |-> FALSE,
      microphoneEnabled |-> FALSE, readyForSpeech |-> FALSE ]

\* The values a call of connect() closes over: those of the current render

Closure == [ isConnected |-> isConnected, isConnecting |-> isConnecting,
             livekitUrl |-> livekitUrl, livekitToken |-> livekitToken ]

updateStatus(s, message, type) ==
    [ s EXCEPT !.status = [ message |-> message, type |-> type ] ]

updateConnectionStep(s, step) ==
    [ s EXCEPT !.connectionStep = step ]

\* clearTimeout(ref.current) on the timers of one kind; ref = 0 is null
clearTimeout(timers, ref) ==
    IF ref # 0
    THEN [ timers EXCEPT ![ref] = FALSE ]
    ELSE timers

\* resetConnectionState without the clearTimeout of the reconnect timer
resetConnectionStateKeepsReconnect(s) ==
    [ s EXCEPT !.connectionState = initialConnectionState,
               !.agentReady = FALSE,
               !.audioPlaying = FALSE,
               !.isConnecting = FALSE,
               !.connectionStep = "",
               !.reconnectTimeoutRef = 0,
               !.connTimer = clearTimeout(s.connTimer, s.connectionTimeoutRef),
               !.connectionTimeoutRef = 0 ]

resetConnectionState(s) ==
    [ s EXCEPT !.connectionState = initialConnectionState,
               !.agentReady = FALSE,
               !.audioPlaying = FALSE,
               !.isConnecting = FALSE,
               !.connectionStep = "",
               !.reconTimer = clearTimeout(s.reconTimer, s.reconnectTimeoutRef),
               !.reconnectTimeoutRef = 0,
               !.connTimer = clearTimeout(s.connTimer, s.connectionTimeoutRef),
               !.connectionTimeoutRef = 0 ]

\* room.disconnect() of the transport library: the session of room r ends
\* and the tracks subscribed through it are gone.
roomDisconnect(s, r) ==
    [ s EXCEPT !.roomSt[r] = "closed",
               !.agentIn[r] = FALSE,
               !.pub[r] = "none",
               !.trackRoom = [ t \in Tracks |->
                                 IF s.trackRoom[t] = r THEN 0 ELSE s.trackRoom[t] ] ]

\* room.localParticipant.setMicrophoneEnabled(enabled) of the transport
\* library, on room r, once it has settled.  pub[r] is the microphone
\* publication of room r: "none", "enabled" or "muted".  Muting or unmuting
\* a publication that exists succeeds; enabling without one acquires the
\* microphone, which succeeds (ok) or fails, and needs a connected room.
setMicrophoneEnabled(s, r, enabled, ok) ==
    LET live == s.roomSt[r] \in { "connected", "reconnecting" }
    IN  [ s EXCEPT !.pub[r] =
            CASE ~enabled /\ @ = "enabled" -> "muted"
              [] enabled /\ @ = "muted"    -> "enabled"
              [] enabled /\ @ = "none"     -> IF live /\ ok THEN "enabled" ELSE "none"
              [] OTHER                      -> @ ]

\* The analyser part of cleanupConnection
cleanupAnalyser(s) ==
    [ s EXCEPT !.tapsConnected = s.tapsConnected
                                   \ { s.analyserSourceRef, s.analyserRef },
               !.analyserSourceRef = 0,
               !.analyserRef = 0 ]

\* cleanupConnection without its last statement, setIsMuted(false)
cleanupConnectionKeepsMute(s) ==
    LET r  == s.roomRef
        s1 == IF r # 0
              THEN [ roomDisconnect([ s EXCEPT !.listeners[r] = FALSE ], r)
                       EXCEPT !.roomRef = 0 ]
              ELSE s
        s2 == cleanupAnalyser(s1)
        s3 == resetConnectionState(s2)
    IN  [ s3 EXCEPT !.isConnected = FALSE ]

cleanupConnection(s) ==
    LET r  == s.roomRef
        s1 == IF r # 0
              THEN [ roomDisconnect([ s EXCEPT !.listeners[r] = FALSE ], r)
                       EXCEPT !.roomRef = 0 ]
              ELSE s
        s2 == cleanupAnalyser(s1)
        s3 == resetConnectionState(s2)
    IN  [ s3 EXCEPT !.isConnected = FALSE, !.isMuted = FALSE ]

----------------------------------------------------------------------------
Init ==
    /\ isConnected = FALSE
    /\ isConnecting = FALSE
    /\ connectionStep = ""
    /\ isMuted = FALSE
    /\ mediaDevices \in BOOLEAN
    /\ status = IF mediaDevices
                THEN [ message |-> "Disconnected", type |-> "disconnected" ]
                ELSE [ message |-> "Please use HTTPS or localhost for microphone access",
                       type |-> "error" ]
    /\ livekitUrl = "ws://localhost:7883"
    /\ livekitToken = ""
    /\ agentReady = FALSE
    /\ audioPlaying = FALSE
    /\ connectionState = initialConnectionState
    /\ roomRef = 0
    /\ reconnectTimeoutRef = 0
    /\ connectionTimeoutRef = 0
    /\ analyserRef = 0
    /\ analyserSourceRef = 0
    /\ LivekitClient = FALSE
    /\ nAttempts = 0
    /\ pc = [ a \in Attempts |-> "idle" ]
    /\ cap = [ a \in Attempts |-> NoCap ]
    /\ roomSt = [ a \in Attempts |-> "none" ]
    /\ listeners = [ a \in Attempts |-> FALSE ]
    /\ mic = [ a \in Attempts |-> FALSE ]
    /\ agentIn = [ a \in Attempts |-> FALSE ]
    /\ connTimer = [ a \in Attempts |-> FALSE ]
    /\ reconTimer = [ a \in Attempts |-> FALSE ]
    /\ presetTimers = << >>
    /\ nTracks = 0
    /\ trackRoom = [ t \in Tracks |-> 0 ]
    /\ tapsConnected = {}
    /\ pub = [ a \in Attempts |-> "none" ]
    /\ memoryIndicator = [ isVisible |-> FALSE, type |-> << >>, message |-> "" ]
    /\ toolIndicator = [ isVisible |-> FALSE, label |-> "" ]
    /\ memoryFallback = FALSE
    /\ memTimers = 0
    /\ toolTimers = 0
    /\ nPackets = 0
    /\ nLogs = ( IF mediaDevices THEN 1 ELSE 3 )
    /\ debugLog = [ i \in 1..nLogs |-> i ]
    /\ retryContext = NoContext
    /\ retryDelay = 0
    /\ hist = [ a \in Attempts |-> NoHist ]
    /\ last = NoLast

----------------------------------------------------------------------------
\* Book-keeping for the claims: a teardown that runs while attempt b is
\* suspended on its token request or on room.connect() makes b stale.
noteTeardown(s) ==
    [ s EXCEPT !.hist = [ b \in Attempts |->
        [ s.hist[b] EXCEPT !.stale = @ \/ s.pc[b] \in { "token", "connect" } ] ] ]

\* An attempt that has begun, has not settled and has not been torn down
InFlight(s, b) ==
    /\ s.pc[b] \in { "token", "load", "connect" }
    /\ ~s.hist[b].stale

----------------------------------------------------------------------------
\* connect(), up to the await inside generateToken: a new attempt with
\* closure c.
beginConnect(s, c) ==
    LET a  == s.nAttempts + 1
        s1 == [ s EXCEPT !.nAttempts = a,
                         !.pc[a] = "token",
                         !.cap[a] = c,
                         !.hist[a].overlap = \E b \in Attempts : InFlight(s, b) ]
        s2 == updateConnectionStep(s1, "Generating token...")
    IN  updateStatus(s2, "Generating token...", "connecting")

\* generateToken from the response on.  outcome: "ok" a body with token,
\* room and livekit_url; "fail" a network error, a non-OK status or an
\* unparsable body; "noToken" / "noUrl" a body without that field.
\* The result is <<state, token, url>>; "" stands for undefined.
generateTokenFailed(s) ==
    updateStatus(s, "Failed to generate token. Make sure token server is running.", "error")

generateToken(s, outcome) ==
    LET tok == IF outcome = "noToken" THEN "" ELSE "token"
        s1  == [ s EXCEPT !.livekitToken = tok ]
        s2  == IF outcome # "noUrl"
               THEN [ s1 EXCEPT !.livekitUrl = "ws://server" ]
               ELSE s1
        s3  == [ s2 EXCEPT !.connectionState.tokenGenerated = TRUE ]
        s4  == updateStatus(s3, "Token ready for room", "disconnected")
    IN  CASE outcome = "fail"  -> << generateTokenFailed(s), "", "" >>
          [] outcome = "noUrl" -> << generateTokenFailed(s4), "", "" >>
          [] OTHER             -> << s4, tok, "ws://server" >>

\* connect(): new Room, roomRef, the listeners, room.connect() called
createRoom(s, a) ==
    LET s1 == updateConnectionStep(s, "Creating room...")
        s2 == [ s1 EXCEPT !.roomSt[a] = "connecting",
                          !.roomRef = a,
                          !.listeners[a] = TRUE ]
        s3 == updateConnectionStep(s2, "Connecting to room...")
    IN  [ s3 EXCEPT !.pc[a] = "connect" ]

\* connect(): a catch block that reports the failure and cleans nothing up
connectFailedNoCleanup(s, a) ==
    LET s1 == updateStatus(s, "Connection failed", "error")
    IN  [ s1 EXCEPT !.isConnecting = FALSE, !.pc[a] = "done" ]

\* connect(): the catch block
connectFailed(s, a) ==
    LET s1 == updateStatus(s, "Connection failed", "error")
        s2 == noteTeardown(cleanupConnection(s1))
    IN  [ s2 EXCEPT !.isConnecting = FALSE, !.pc[a] = "done" ]

\* The connection timer's callback
connectionTimeout(s, a) ==
    IF s.cap[a].isConnecting /\ ~s.cap[a].isConnected
    THEN updateStatus(noteTeardown(cleanupConnection(s)),
                      "Connection timeout. Please try again.", "error")
    ELSE s

\* connect(): url || livekitUrl and token || livekitToken
lkUrlOf(s, a, url) == IF url # "" THEN url ELSE s.cap[a].livekitUrl

lkTokenOf(s, a, token) == IF token # "" THEN token ELSE s.cap[a].livekitToken

\* connect() without the call of checkMediaDevices
connectBodyNoPreflight(s, a, token, url) ==
    LET lkUrl   == lkUrlOf(s, a, url)
        lkToken == lkTokenOf(s, a, token)
        s1 == [ s EXCEPT !.isConnecting = TRUE ]
        s2 == resetConnectionState(s1)
        s3 == [ s2 EXCEPT !.connTimer[a] = TRUE,
                          !.connectionTimeoutRef = a ]
        s4 == updateConnectionStep(s3, "Preparing connection...")
        s5 == updateStatus(s4, "Connecting...", "connecting")
    IN  IF lkUrl = "" \/ lkToken = ""
        THEN [ updateStatus(s, "LiveKit URL or token missing", "error")
                 EXCEPT !.pc[a] = "done" ]
        ELSE IF s.cap[a].isConnecting
        THEN [ s EXCEPT !.pc[a] = "done" ]
        ELSE IF s.LivekitClient
        THEN createRoom(s5, a)
        ELSE [ updateConnectionStep(s5, "Loading LiveKit client...")
                 EXCEPT !.pc[a] = "load" ]

\* connect() after generateToken returned <<token, url>>, up to its next await
connectBody(s, a, token, url) ==
    LET lkUrl   == lkUrlOf(s, a, url)
        lkToken == lkTokenOf(s, a, token)
        s1 == [ s EXCEPT !.isConnecting = TRUE ]
        s2 == resetConnectionState(s1)
        s3 == [ s2 EXCEPT !.connTimer[a] = TRUE,
                          !.connectionTimeoutRef = a ]
        s4 == updateConnectionStep(s3, "Preparing connection...")
        s5 == updateStatus(s4, "Connecting...", "connecting")
    IN  IF lkUrl = "" \/ lkToken = ""
        THEN [ updateStatus(s, "LiveKit URL or token missing", "error")
                 EXCEPT !.pc[a] = "done" ]
        ELSE IF ~s.mediaDevices
        THEN [ updateStatus(s, "MediaDevices API not available. Try HTTPS or localhost.", "error")
                 EXCEPT !.pc[a] = "done" ]
        ELSE IF s.cap[a].isConnecting
        THEN [ s EXCEPT !.pc[a] = "done" ]
        ELSE IF s.LivekitClient
        THEN createRoom(s5, a)
        ELSE [ updateConnectionStep(s5, "Loading LiveKit client...")
                 EXCEPT !.pc[a] = "load" ]

----------------------------------------------------------------------------
\* The host calls onConnect: connect() of the current render
Connect ==
    /\ nAttempts < MaxAttempts
    /\ Commit(beginConnect(Cur, Closure))
    /\ Did("connect", nAttempts + 1, "")

\* The same for one session after another, at most MaxSessions: called only
\* once every earlier attempt is over, nothing of it pending and its room
\* closed
ConnectIdle ==
    /\ nAttempts < MaxSessions
    /\ roomRef = 0
    /\ \A a \in Attempts : pc[a] = "idle" \/ Dead(Cur, a)
    /\ Connect

\* The token request of attempt a settles
TokenResponse(a, outcome) ==
    /\ pc[a] = "token"
    /\ LET g  == generateToken(Cur, outcome)
       IN  /\ Commit(connectBody(g[1], a, g[2], g[3]))
           /\ last' = [ NoLast EXCEPT
                  !.op = "token", !.a = a, !.arg = outcome,
                  !.mid = g[1].status.type,
                  !.missing = \/ lkUrlOf(g[1], a, g[3]) = ""
                              \/ lkTokenOf(g[1], a, g[2]) = "" ]

\* The script tag of loadLiveKitClient loads, or fails to
LibraryLoaded(a, ok) ==
    /\ pc[a] = "load"
    /\ IF ok
       THEN Commit(createRoom([ Cur EXCEPT !.LivekitClient = TRUE ], a)) /\ Other
       ELSE Commit(connectFailed(Cur, a)) /\ Did("connectFailed", a, "load")

----------------------------------------------------------------------------
\* Room listeners of attempt a's room.  A listener runs only while
\* listeners[a]; the transport delivers an event only in a state of the
\* session in which it can occur.

\* RoomEvent.Connected handler, up to the await of setMicrophoneEnabled(true)
onConnected(s, a) ==
    LET s1 == [ s EXCEPT !.connectionState.roomConnected = TRUE ]
        s2 == updateConnectionStep(s1, "Room connected, enabling microphone...")
        s3 == updateStatus(s2, "Connected - Setting up microphone...", "connecting")
    IN  [ s3 EXCEPT !.mic[a] = TRUE ]

\* RoomEvent.Connected handler after setMicrophoneEnabled(true) resolved
onMicrophoneEnabled(s, a) ==
    LET s1 == [ s EXCEPT !.connectionState.microphoneEnabled = TRUE ]
        s2 == updateConnectionStep(s1, "Waiting for agent...")
    IN  [ s2 EXCEPT !.connTimer = clearTimeout(s.connTimer, s.connectionTimeoutRef),
                    !.connectionTimeoutRef = 0 ]

onMicrophoneFailedTearsDown(s, a) ==
    cleanupConnection(updateStatus(s, "Microphone access failed", "error"))

\* RoomEvent.Connected handler, catch (micError)
onMicrophoneFailed(s, a) ==
    updateStatus(s, "Microphone access failed", "error")

\* RoomEvent.Disconnected handler
onDisconnected(s, a, reason) ==
    LET s1 == updateStatus(s, "Disconnected from voice assistant", "disconnected")
        s2 == noteTeardown(cleanupConnection(s1))
    IN  IF reason # "user-initiated" /\ s.cap[a].isConnected
        THEN [ s2 EXCEPT !.reconTimer[a] = TRUE,
                         !.reconnectTimeoutRef = a ]
        ELSE s2

\* RoomEvent.ParticipantConnected handler
onParticipantConnected(s, a, agent) ==
    IF agent
    THEN LET s1 == [ s EXCEPT !.connectionState.agentJoined = TRUE,
                              !.agentReady = TRUE ]
             s2 == updateConnectionStep(s1, "Agent joined, ready for speech...")
             s3 == updateStatus(s2, "Connected and ready", "connected")
         IN  [ s3 EXCEPT !.isConnected = TRUE, !.isConnecting = FALSE ]
    ELSE s

\* RoomEvent.ParticipantDisconnected handler
onParticipantDisconnected(s, a, agent) ==
    IF agent
    THEN updateStatus([ s EXCEPT !.agentReady = FALSE ], "Agent disconnected", "error")
    ELSE s

\* RoomEvent.ConnectionStateChanged handler
onConnectionStateChanged(s, a, state) ==
    IF state = "disconnected"
    THEN updateStatus(s, "Connection lost", "error")
    ELSE s

\* RoomEvent.Reconnecting and RoomEvent.Reconnected handlers
onReconnecting(s, a) == updateStatus(s, "Reconnecting...", "connecting")

onReconnected(s, a) == updateStatus(s, "Reconnected", "connected")

\* RoomEvent.TrackSubscribed handler, for the audio track t of the agent
onTrackSubscribed(s, a, t) ==
    [ s EXCEPT !.audioPlaying = TRUE,
               !.tapsConnected = @ \cup { t },
               !.analyserRef = t,
               !.analyserSourceRef = t ]

\* RoomEvent.TrackUnsubscribed handler, for an audio track of the agent
onTrackUnsubscribed(s, a, t) ==
    [ cleanupAnalyser(s) EXCEPT !.audioPlaying = FALSE ]

----------------------------------------------------------------------------
\* room.connect() of attempt a succeeds: the room emits Connected
RoomConnected(a) ==
    /\ pc[a] = "connect"
    /\ roomSt[a] = "connecting"
    /\ LET s1 == [ Cur EXCEPT !.roomSt[a] = "connected", !.pc[a] = "done" ]
       IN  Commit(IF listeners[a] THEN onConnected(s1, a) ELSE s1)
    /\ Other

\* room.connect() of attempt a rejects
RoomConnectFailed(a) ==
    /\ pc[a] = "connect"
    /\ roomSt[a] = "connecting"
    /\ Commit(connectFailed(roomDisconnect(Cur, a), a))
    /\ Did("connectFailed", a, "connect")

\* room.connect() settles for a room that cleanupConnection disconnected
\* meanwhile: the library either resolves or rejects the promise.
RoomConnectAborted(a, rejects) ==
    /\ pc[a] = "connect"
    /\ roomSt[a] = "closed"
    /\ IF rejects
       THEN Commit(connectFailed(Cur, a))
       ELSE Commit([ Cur EXCEPT !.pc[a] = "done" ])
    /\ Did("connectAborted", a, IF rejects THEN "rejected" ELSE "resolved")

\* setMicrophoneEnabled(true) of the Connected handler settles
MicrophoneResult(a, ok) ==
    /\ mic[a]
    /\ LET s1 == setMicrophoneEnabled([ Cur EXCEPT !.mic[a] = FALSE ], a, TRUE, ok)
       IN  IF ok
           THEN Commit(onMicrophoneEnabled(s1, a))
           ELSE Commit(onMicrophoneFailed(s1, a))
    /\ IF ok THEN Other ELSE Did("microphoneFailed", a, "")

\* The session of room a ends; the room emits Disconnected(reason)
RoomDisconnected(a, reason) ==
    /\ listeners[a]
    /\ roomSt[a] \in { "connected", "reconnecting" }
    /\ Commit(onDisconnected(roomDisconnect(Cur, a), a, reason))
    /\ DidFrom("Disconnected", a, reason)

\* A participant joins room a
ParticipantConnected(a, agent) ==
    /\ listeners[a]
    /\ roomSt[a] = "connected"
    /\ agent => ~agentIn[a]
    /\ Commit(onParticipantConnected(
           [ Cur EXCEPT !.agentIn[a] = @ \/ agent ], a, agent))
    /\ Other

\* A participant leaves room a.  The transport unsubscribes the tracks of a
\* leaving participant first, each with its own TrackUnsubscribed event.
ParticipantDisconnected(a, agent) ==
    /\ listeners[a]
    /\ roomSt[a] = "connected"
    /\ agent => agentIn[a] /\ \A t \in Tracks : trackRoom[t] # a
    /\ Commit(onParticipantDisconnected(
           [ Cur EXCEPT !.agentIn[a] = @ /\ ~agent ], a, agent))
    /\ Other

\* The transport of room a loses its connection and starts to resume it
Reconnecting(a) ==
    /\ listeners[a]
    /\ roomSt[a] = "connected"
    /\ Commit(onReconnecting([ Cur EXCEPT !.roomSt[a] = "reconnecting" ], a))
    /\ Other

\* The transport of room a has resumed
Reconnected(a) ==
    /\ listeners[a]
    /\ roomSt[a] = "reconnecting"
    /\ Commit(onReconnected([ Cur EXCEPT !.roomSt[a] = "connected" ], a))
    /\ Did("Reconnected", a, "")

\* Room a reports a change of its connection state
ConnectionStateChanged(a, state) ==
    /\ listeners[a]
    /\ roomSt[a] \in { "connected", "reconnecting" }
    /\ Commit(onConnectionStateChanged(Cur, a, state))
    /\ Other

\* The agent in room a publishes an audio track and it is subscribed
TrackSubscribed(a) ==
    /\ listeners[a]
    /\ roomSt[a] = "connected"
    /\ agentIn[a]
    /\ nTracks < MaxTracks
    /\ LET t == nTracks + 1
       IN  Commit(onTrackSubscribed(
               [ Cur EXCEPT !.nTracks = t, !.trackRoom[t] = a ], a, t))
    /\ Other

\* An audio track of the agent in room a is unsubscribed
TrackUnsubscribed(a, t) ==
    /\ listeners[a]
    /\ roomSt[a] = "connected"
    /\ trackRoom[t] = a
    /\ Commit(onTrackUnsubscribed([ Cur EXCEPT !.trackRoom[t] = 0 ], a, t))
    /\ Other

----------------------------------------------------------------------------
\* Data packets.  A payload is the text of a packet: json says whether
\* JSON.parse accepts it, kind what it parses to, and for an object its
\* fields; "" stands for a field that is absent.  The type field is absent,
\* a number (<<"0">> for zero, falsy) or a string, and a string is the
\* sequence of its parts: 'memory-retrieved' is <<"memory-", "retrieved">>.
StringType(v) == [ k |-> "string", v |-> v ]

NumberType(n) == [ k |-> "number", v |-> << n >> ]

Raw(json, kind) == [ NoPacket EXCEPT !.json = json, !.kind = kind ]

Object(type, message, tool, name) ==
    [ json |-> TRUE, kind |-> "object", type |-> type,
      message |-> message, tool |-> tool, name |-> name ]

Payloads ==
    { Raw(FALSE, "text"), Raw(TRUE, "null"), Raw(TRUE, "number"),
      Raw(TRUE, "string"), Raw(TRUE, "array"),
      Object(NoType, "found note", "", ""),
      Object(NumberType("7"), "found note", "", ""),
      Object(NumberType("0"), "", "", ""),
      Object(StringType(<< >>), "", "", ""),
      Object(StringType(<< "status" >>), "hello", "", ""),
      Object(StringType(<< "memory-", "retrieved" >>), "found note", "", ""),
      Object(StringType(<< "memory-", "stored" >>), "", "", ""),
      Object(StringType(<< "memory-", "fallback" >>), "", "", ""),
      Object(StringType(<< "tool-", "search" >>), "searching", "web", "finder"),
      Object(StringType(<< "tool-", "run" >>), "running", "", "runner"),
      Object(StringType(<< "tool-", "call" >>), "calling", "", ""),
      Object(StringType(<< "tool-", "done" >>), "", "", "") }

\* JavaScript truthiness of a parsed value and of a type field
truthy(data) == data.kind # "null"

typeTruthy(t) ==
    \/ t.k = "string" /\ t.v # << >>
    \/ t.k = "number" /\ t.v # << "0" >>

\* data.type: undefined unless data is an object with that field
typeOf(data) == IF data.kind = "object" THEN data.type ELSE NoType

\* String.prototype.startsWith on a string type
startsWith(t, prefix) == Len(t.v) > 0 /\ t.v[1] = prefix

\* data.tool || data.name || data.message || 'Tool used'
toolLabelMessageFirst(data) ==
    IF data.message # "" THEN data.message
    ELSE IF data.tool # "" THEN data.tool
    ELSE IF data.name # "" THEN data.name
    ELSE "Tool used"

toolLabel(data) ==
    IF data.tool # "" THEN data.tool
    ELSE IF data.name # "" THEN data.name
    ELSE IF data.message # "" THEN data.message
    ELSE "Tool used"

\* RoomEvent.DataReceived handler that reads the type of every packet
\* JSON.parse accepts as a memory event
onDataReceivedAnyType(s, a, payload) ==
    IF ~payload.json
    THEN s
    ELSE [ s EXCEPT !.memoryIndicator = [ isVisible |-> TRUE,
                                          type |-> typeOf(payload).v,
                                          message |-> payload.message ],
                    !.memTimers = @ + 1 ]

\* RoomEvent.DataReceived handler.  JSON.parse throws on a text that is not
\* JSON, and data.type.startsWith throws on a truthy type that is not a
\* string (the first test reaches it before any state is set); the catch
\* block logs to the console only.
onDataReceived(s, a, payload) ==
    LET data == payload
        t    == typeOf(data)
        has  == truthy(data) /\ typeTruthy(t)
        s1 == IF has /\ startsWith(t, "memory-")
              THEN [ s EXCEPT !.memoryIndicator = [ isVisible |-> TRUE,
                                                    type |-> t.v,
                                                    message |-> data.message ],
                              !.memTimers = @ + 1 ]
              ELSE s
        s2 == IF has /\ startsWith(t, "tool-")
              THEN [ s1 EXCEPT !.toolIndicator = [ isVisible |-> TRUE,
                                                   label |-> toolLabel(data) ],
                               !.toolTimers = @ + 1 ]
              ELSE s1
        s3 == IF truthy(data) /\ t = StringType(<< "memory-", "fallback" >>)
              THEN [ s2 EXCEPT !.memoryFallback = TRUE ]
              ELSE s2
    IN  IF ~payload.json
        THEN s
        ELSE IF has /\ t.k # "string"
        THEN s
        ELSE s3

\* The callbacks of the auto-hide timers: 3 s after a memory packet, 2 s
\* after a tool packet.  The timers of one kind fire in the order they were
\* set, so memTimers and toolTimers count the pending ones.
hideMemoryIndicatorClearsFallback(s) ==
    [ s EXCEPT !.memoryIndicator.isVisible = FALSE, !.memTimers = @ - 1,
               !.memoryFallback = FALSE ]

hideMemoryIndicator(s) ==
    [ s EXCEPT !.memoryIndicator.isVisible = FALSE, !.memTimers = @ - 1 ]

hideToolIndicator(s) ==
    [ s EXCEPT !.toolIndicator.isVisible = FALSE, !.toolTimers = @ - 1 ]

\* A data packet arrives on room a
DataReceived(a, payload) ==
    /\ listeners[a]
    /\ roomSt[a] = "connected"
    /\ nPackets < MaxPackets
    /\ Commit(onDataReceived([ Cur EXCEPT !.nPackets = @ + 1 ], a, payload))
    /\ last' = [ NoLast EXCEPT !.op = "DataReceived", !.a = a, !.packet = payload ]

MemoryHideTimer ==
    /\ memTimers > 0
    /\ Commit(hideMemoryIndicator(Cur))
    /\ Other

ToolHideTimer ==
    /\ toolTimers > 0
    /\ Commit(hideToolIndicator(Cur))
    /\ Other

----------------------------------------------------------------------------
\* disconnect()
disconnect(s) ==
    updateStatus(noteTeardown(cleanupConnection(s)), "Disconnected", "disconnected")

\* toggleMute(); ok is the outcome of the microphone acquisition, should
\* setMicrophoneEnabled need one
toggleMute(s, ok) ==
    IF ~s.isConnected \/ s.roomRef = 0
    THEN s
    ELSE LET newMutedState == ~s.isMuted
         IN  setMicrophoneEnabled([ s EXCEPT !.isMuted = newMutedState ],
                                  s.roomRef, ~newMutedState, ok)

\* handlePresetChange(preset) while connected: disconnect(), and connect()
\* of this render 500 ms later
handlePresetChange(s, c) ==
    [ disconnect(s) EXCEPT !.presetTimers = Append(@, c) ]

\* The reconnect timer's callback; the connect() it calls is the one of the
\* closure that armed the timer.
reconnectTimer(s, a) ==
    IF ~s.cap[a].isConnected /\ ~s.cap[a].isConnecting
    THEN beginConnect(s, s.cap[a])
    ELSE s

\* The host edits the URL and the token fields of the settings modal
\* (setLivekitUrl, setLivekitToken); followed before the first connect()
SettingsChange(url, token) ==
    /\ nAttempts = 0
    /\ Commit([ Cur EXCEPT !.livekitUrl = url, !.livekitToken = token ])
    /\ Other

Disconnect ==
    /\ Commit(disconnect(Cur))
    /\ DidFrom("disconnect", roomRef, "")

ToggleMute(ok) ==
    /\ Commit(toggleMute(Cur, ok))
    /\ Other

PresetChange ==
    /\ isConnected
    /\ nAttempts + Len(presetTimers) < MaxAttempts
    /\ Commit(handlePresetChange(Cur, Closure))
    /\ Other

PresetTimer ==
    /\ presetTimers # << >>
    /\ nAttempts < MaxAttempts
    /\ Commit(beginConnect([ Cur EXCEPT !.presetTimers = Tail(@) ],
                           Head(presetTimers)))
    /\ Did("presetTimer", nAttempts + 1, "")

ConnectionTimer(a) ==
    /\ connTimer[a]
    /\ Commit(connectionTimeout([ Cur EXCEPT !.connTimer[a] = FALSE ], a))
    /\ DidFrom("connectionTimer", a, "")

ReconnectTimer(a) ==
    /\ reconTimer[a]
    /\ (~cap[a].isConnected /\ ~cap[a].isConnecting) => nAttempts < MaxAttempts
    /\ Commit(reconnectTimer([ Cur EXCEPT !.reconTimer[a] = FALSE ], a))
    /\ Did("reconnectTimer", a, "")

----------------------------------------------------------------------------
\* What the token server, the library loader, the transport and the
\* connection timer do once connect() has been called, and the host's
\* disconnect()
SessionEvents ==
    \/ \E a \in Attempts, o \in { "ok", "fail", "noToken", "noUrl" } : TokenResponse(a, o)
    \/ \E a \in Attempts, ok \in BOOLEAN : LibraryLoaded(a, ok)
    \/ \E a \in Attempts : RoomConnected(a)
    \/ \E a \in Attempts : RoomConnectFailed(a)
    \/ \E a \in Attempts, rejects \in BOOLEAN : RoomConnectAborted(a, rejects)
    \/ \E a \in Attempts, ok \in BOOLEAN : MicrophoneResult(a, ok)
    \/ \E a \in Attempts, reason \in { "user-initiated", "unexpected" } : RoomDisconnected(a, reason)
    \/ \E a \in Attempts, agent \in BOOLEAN : ParticipantConnected(a, agent)
    \/ \E a \in Attempts, agent \in BOOLEAN : ParticipantDisconnected(a, agent)
    \/ \E a \in Attempts : Reconnecting(a)
    \/ \E a \in Attempts : Reconnected(a)
    \/ \E a \in Attempts, st \in { "connected", "disconnected" } : ConnectionStateChanged(a, st)
    \/ Disconnect
    \/ \E a \in Attempts : ConnectionTimer(a)

\* The steps that start an attempt without a call by the host
Rearm ==
    \/ PresetChange
    \/ PresetTimer
    \/ \E a \in Attempts : ReconnectTimer(a)

\* The session lifecycle: the host may call connect() at any moment
Next ==
    \/ Connect
    \/ SessionEvents
    \/ Rearm

Spec == Init /\ [][Next]_vars

\* The session with its media: the agent's audio tracks and the mute button.
\* The host holds one session after another.
MediaEvents ==
    \/ \E a \in Attempts : TrackSubscribed(a)
    \/ \E a \in Attempts, t \in Tracks : TrackUnsubscribed(a, t)
    \/ \E ok \in BOOLEAN : ToggleMute(ok)

NextMedia ==
    \/ ConnectIdle
    \/ SessionEvents
    \/ MediaEvents

SpecMedia == Init /\ [][NextMedia]_vars

\* The session with the steps that start an attempt on their own: the host
\* holds one session after another and may change the preset.
NextRearm ==
    \/ ConnectIdle
    \/ SessionEvents
    \/ Rearm

SpecRearm == Init /\ [][NextRearm]_vars

\* The session of a host that may have edited the connection settings
NextSession ==
    \/ ConnectIdle
    \/ SessionEvents
    \/ \E url \in { "", "ws://localhost:7883" }, token \in { "", "token" } :
           SettingsChange(url, token)

SpecSession == Init /\ [][NextSession]_vars

\* The debug log: log() is called, by whichever handler, with one line
\* after another; the line of the n-th call is n.
LogCall ==
    /\ nLogs < MaxLogs
    /\ nLogs' = nLogs + 1
    /\ debugLog' = log(debugLog, nLogs + 1)
    /\ Assign(Cur)
    /\ UNCHANGED << last, retryContext, retryDelay >>

NextLog == LogCall

SpecLog == Init /\ [][NextLog]_vars

\* The session with its data channel: the host connects and disconnects,
\* the room connects, the agent joins and the session ends; packets arrive
\* while the room is connected, and the auto-hide timers fire.
DataSession ==
    \/ \E a \in Attempts : TokenResponse(a, "ok")
    \/ \E a \in Attempts : LibraryLoaded(a, TRUE)
    \/ \E a \in Attempts : RoomConnected(a)
    \/ \E a \in Attempts : MicrophoneResult(a, TRUE)
    \/ \E a \in Attempts : ParticipantConnected(a, TRUE)
    \/ \E a \in Attempts : RoomDisconnected(a, "unexpected")
    \/ Disconnect

DataEvents ==
    \/ \E a \in Attempts, payload \in Payloads : DataReceived(a, payload)
    \/ MemoryHideTimer
    \/ ToolHideTimer

NextData ==
    \/ ConnectIdle
    \/ DataSession
    \/ DataEvents

SpecData == Init /\ [][NextData]_vars

\* Muting while attempts may overlap: the host may call connect(),
\* toggleMute() and disconnect() at any moment; the token and the library
\* are obtained and the agent joins.
MuteSession ==
    \/ \E a \in Attempts : TokenResponse(a, "ok")
    \/ \E a \in Attempts : LibraryLoaded(a, TRUE)
    \/ \E a \in Attempts : RoomConnected(a)
    \/ \E a \in Attempts, ok \in BOOLEAN : MicrophoneResult(a, ok)
    \/ \E a \in Attempts : ParticipantConnected(a, TRUE)
    \/ Disconnect

NextMute ==
    \/ Connect
    \/ MuteSession
    \/ \E ok \in BOOLEAN : ToggleMute(ok)

SpecMute == Init /\ [][NextMute]_vars

\* The reconnect policy given to new Room(): the transport calls
\* nextRetryDelayInMs(context) before each retry of a reconnection, with the
\* number of retries made so far and the time elapsed since the first.
\* retryContext is the context of the last call, retryDelay its result.
MathMin(x, y) == IF x <= y THEN x ELSE y

MathPow(base, exponent) == base ^ exponent

nextRetryDelayInMsUncapped(context) ==
    1000 * MathPow(2, context.retryCount)

nextRetryDelayInMs(context) ==
    MathMin(1000 * MathPow(2, context.retryCount), 10000)

ElapsedMs == { 0, 1000, 30000 }

TransportRetry(elapsedMs) ==
    /\ retryContext.retryCount + 1 < MaxRetries
    /\ retryContext' = [ retryCount |-> retryContext.retryCount + 1,
                         elapsedMs |-> elapsedMs ]
    /\ retryDelay' = nextRetryDelayInMs(retryContext')
    /\ Assign(Cur)
    /\ UNCHANGED << debugLog, nLogs, last >>

NextBackoff == \E elapsedMs \in ElapsedMs : TransportRetry(elapsedMs)

SpecBackoff == Init /\ [][NextBackoff]_vars

----------------------------------------------------------------------------
\* Properties

AllReady ==
    /\ connectionState.roomConnected
    /\ connectionState.agentJoined
    /\ connectionState.microphoneEnabled

\* C1: in every reachable state readyForSpeech is true if and only if
\* roomConnected, agentJoined and microphoneEnabled are all true.
C1_ReadyForSpeechIffAll ==
    connectionState.readyForSpeech <=> AllReady

\* C2: when the connection timer of an attempt fires and the session has not
\* reached the connected milestone, the callback tears the attempt down:
\* the status is the timeout error and the room handle is released.
C2_TimeoutTearsDown ==
    ( /\ last.op = "connectionTimer"
      /\ ~last.preConnected
      /\ last.preType # "connected" )
    => /\ status = [ message |-> "Connection timeout. Please try again.",
                     type |-> "error" ]
       /\ roomRef = 0
       /\ roomSt[last.a] \in { "none", "closed" }

\* C3: a connect() called while an earlier attempt is in flight starts no
\* second attempt: it creates no Room and issues no transport connect.
C3_SecondConnectStartsNothing ==
    \A a \in Attempts :
        hist[a].overlap => roomSt[a] = "none" /\ pc[a] # "connect"

\* C4: every Room ever created is the one roomRef references, or has been
\* disconnected and has no listeners left.
C4_AtMostOneLiveRoom ==
    \A a \in Attempts :
        (roomSt[a] # "none" /\ roomRef # a)
            => roomSt[a] = "closed" /\ ~listeners[a]

\* C5: after a fully connected session received Disconnected with a reason
\* other than 'user-initiated', exactly one reconnect timer is pending, and
\* when it fires a connect() attempt starts.
C5_ReconnectScheduledOnce ==
    /\ ( /\ last.op = "Disconnected"
         /\ last.arg = "unexpected"
         /\ last.preType = "connected"
         /\ last.preConnected )
       => /\ reconnectTimeoutRef = last.a
          /\ { a \in Attempts : reconTimer[a] } = { last.a }
    /\ last.op = "reconnectTimer"
       => \E a \in Attempts : pc[a] = "token"

\* C6: a token response or a transport connect that succeeds for an attempt
\* a teardown has made stale changes nothing: connectionState, status,
\* isConnected, isConnecting, roomRef and the rooms stay as they are.
C6_StaleCompletionIgnored ==
    [][ \A a \in Attempts :
          ( /\ hist[a].stale
            /\ \/ pc[a] = "token" /\ last'.op = "token" /\ last'.a = a /\ last'.arg = "ok"
               \/ pc[a] = "connect" /\ last'.op = "connectAborted" /\ last'.a = a
                                     /\ last'.arg = "resolved" )
          => UNCHANGED << connectionState, status, isConnected, isConnecting,
                          roomRef, roomSt >> ]_vars

C8_ConnectedOnlyAfterAgentJoined ==
    status.type = "connected" => connectionState.agentJoined

\* C9: the status type is 'connected' only when tokenGenerated, roomConnected
\* and microphoneEnabled all hold.
C9_ConnectedOnlyWithOtherFlags ==
    (status.type = "connected" /\ isConnected)
    => /\ connectionState.tokenGenerated
       /\ connectionState.roomConnected
       /\ connectionState.microphoneEnabled

\* C10: a failed credential request aborts the attempt whatever URL or token
\* is stored: no Room is created, room.connect is not called, the status is
\* an error and no retry is scheduled.
C10_TokenFailureAborts ==
    (last.op = "token" /\ last.arg # "ok")
    => /\ roomSt[last.a] = "none"
       /\ pc[last.a] = "done"
       /\ status.type = "error"
       /\ ~reconTimer[last.a]

\* C11: a user-initiated disconnect leads to no automatic reconnect.  After
\* disconnect() no reconnect timer is pending and reconnectTimeoutRef is
\* null; a Disconnected handler called with reason 'user-initiated' leaves
\* none pending; a reconnect timer becomes pending only in a Disconnected
\* handler called with another reason; and an attempt starts only in a
\* connect() the host called, in the connect() of a preset change, or in the
\* callback of a reconnect timer that was pending.
C11_DisconnectSchedulesNoReconnect ==
    /\ [] ( last.op = "disconnect"
            => /\ reconnectTimeoutRef = 0
               /\ \A a \in Attempts : ~reconTimer[a] )
    /\ [] ( (last.op = "Disconnected" /\ last.arg = "user-initiated")
            => \A a \in Attempts : ~reconTimer[a] )
    /\ [][ (\E a \in Attempts : ~reconTimer[a] /\ reconTimer'[a])
            => (last'.op = "Disconnected" /\ last'.arg # "user-initiated") ]_vars
    /\ [][ nAttempts' # nAttempts
            => \/ last'.op \in { "connect", "presetTimer" }
               \/ last'.op = "reconnectTimer" /\ reconTimer[last'.a] ]_vars

\* disconnect() was called while a reconnect timer was pending
C11_Witness ==
    /\ last.op = "disconnect"
    /\ last.preTimer

\* C12: when a Disconnected handler is called with a reason other than
\* 'user-initiated' while the reconnect timer of an earlier unexpected
\* disconnect is still pending, no reconnect timer is pending afterwards and
\* the status type is 'error'.
C12_SecondDisconnectEscalates ==
    ( /\ last.op = "Disconnected"
      /\ last.arg = "unexpected"
      /\ last.preTimer )
    => /\ status.type = "error"
       /\ \A a \in Attempts : ~reconTimer[a]

\* C13: once the status type is 'error', a step that neither begins a
\* connect() attempt nor resumes one (a room event, a timer, disconnect())
\* does not make it 'connected' or 'connecting'.
C13_ErrorLeftOnlyByConnect ==
    [][ (status.type = "error" /\ UNCHANGED << nAttempts, pc >>)
        => status'.type \notin { "connected", "connecting" } ]_vars

\* C14: the milestones of a connect attempt leave the status type at
\* 'connecting'.  Token acquired: the status generateToken has set when it
\* returns the token is of type 'connecting'.  Transport connected: the
\* Connected handler leaves the type 'connecting'.  Microphone enabled: the
\* handler's continuation does not change the status.
C14_MilestonesKeepConnecting ==
    /\ [] ( (last.op = "token" /\ last.arg = "ok") => last.mid = "connecting" )
    /\ [][ \A a \in Attempts :
              (pc[a] = "connect" /\ roomSt[a] = "connecting" /\ listeners[a]
                 /\ roomSt'[a] = "connected")
              => status'.type = "connecting" ]_vars
    /\ [][ \A a \in Attempts :
              (mic[a] /\ ~mic'[a] /\ connectionState'.microphoneEnabled
                 /\ ~connectionState.microphoneEnabled)
              => status' = status ]_vars

\* A packet that carries a memory event
MemoryPacket(p) ==
    /\ p.json
    /\ p.kind = "object"
    /\ p.type.k = "string"
    /\ startsWith(p.type, "memory-")

\* C15: a packet whose type starts with 'memory-' makes the memory indicator
\* visible with the packet's type and message; while the hide timer of the
\* latest memory packet is pending (less than 3 s since it arrived) the
\* indicator is visible, also when timers of earlier packets fire; and once
\* no timer is pending it is hidden.
C15_MemoryIndicatorVisibleFor3s ==
    /\ (last.op = "DataReceived" /\ MemoryPacket(last.packet))
       => memoryIndicator = [ isVisible |-> TRUE, type |-> last.packet.type.v,
                              message |-> last.packet.message ]
    /\ memTimers > 0 => memoryIndicator.isVisible
    /\ memTimers = 0 => ~memoryIndicator.isVisible

\* A packet that is not JSON, does not parse to an object, or has no string
\* type field
Malformed(p) ==
    \/ ~p.json
    \/ p.kind # "object"
    \/ p.type.k # "string"

\* C16: a malformed packet is dropped.  The handler leaves the indicators,
\* the fallback flag, the auto-hide timers, connectionState and status as
\* they are, and the room, its listeners and the session as they are; and a
\* well-formed memory or tool packet shows its indicator whatever packets
\* arrived before it.
C16_MalformedPacketDropped ==
    /\ [][ (last'.op = "DataReceived" /\ Malformed(last'.packet))
            => UNCHANGED << memoryIndicator, toolIndicator, memoryFallback,
                            memTimers, toolTimers, connectionState, status,
                            listeners, roomSt, roomRef, isConnected >> ]_vars
    /\ [] ( (last.op = "DataReceived" /\ ~Malformed(last.packet))
            => /\ startsWith(last.packet.type, "memory-")
                    => /\ memoryIndicator.isVisible
                       /\ memoryIndicator.type = last.packet.type.v
               /\ startsWith(last.packet.type, "tool-")
                    => /\ toolIndicator.isVisible
                       /\ toolIndicator.label = toolLabel(last.packet) )

\* A malformed packet arrived while the memory indicator of an earlier
\* packet was visible and its timer pending
C16_Witness ==
    /\ last.op = "DataReceived"
    /\ Malformed(last.packet)
    /\ last.packet.json
    /\ memoryIndicator.isVisible
    /\ memTimers > 0

\* C17: the debug log never holds more than 50 entries, and it holds the
\* most recent lines in the order of the calls.
C17_DebugLogAtMost50 ==
    /\ Len(debugLog) <= 50
    /\ debugLog = [ i \in 1..Len(debugLog) |-> nLogs - Len(debugLog) + i ]

\* C18: toggleMute() mutes only a connected session, and the publication
\* follows isMuted.  While isConnected is false or roomRef is null, a step
\* that is not a step of the connection itself (toggleMute() is one) leaves
\* isMuted and the microphone publications as they are.  A step that flips
\* isMuted and leaves the session connected (toggleMute() is the only one)
\* started connected, and after it, unless the acquisition of the Connected
\* handler is still pending on the room, the room's microphone publication
\* is enabled exactly when isMuted is false.
C18_MuteReflectedOnPublication ==
    /\ [][ ( /\ (~isConnected \/ roomRef = 0)
              /\ UNCHANGED << isConnected, roomRef, roomSt, mic >> )
            => UNCHANGED << isMuted, pub >> ]_vars
    /\ [][ (isMuted' # isMuted /\ isConnected' /\ roomRef' # 0)
            => /\ isConnected
               /\ roomRef = roomRef'
               /\ (~mic'[roomRef']
                     => (pub'[roomRef'] = "enabled" <=> ~isMuted')) ]_vars

\* C19: connect() fails fast.  When the URL or the token connect() is to use
\* is empty, or navigator.mediaDevices is missing, the attempt ends there
\* with an error status: it creates no Room, does not load the library or
\* call room.connect(), arms no connection timer, and isConnecting is not
\* set.
C19_ConnectFailsFast ==
    (last.op = "token" /\ (last.missing \/ ~mediaDevices))
    => /\ pc[last.a] = "done"
       /\ roomSt[last.a] = "none"
       /\ roomRef # last.a
       /\ ~connTimer[last.a]
       /\ connectionTimeoutRef # last.a
       /\ ~isConnecting
       /\ status.type = "error"

\* connect() found its URL empty while a token was stored and the media
\* devices were there
C19_Witness ==
    /\ last.op = "token"
    /\ last.missing
    /\ livekitUrl = ""
    /\ livekitToken # ""
    /\ mediaDevices

\* C20: when loading the library or room.connect() fails, the catch block
\* leaves the status at the connection failure, of type 'error', roomRef
\* null and the attempt's room closed, both timer refs null and no timer
\* pending (so no retry is scheduled), connectionState at its initial value
\* and isConnecting and isConnected false.
C20_ConnectFailureCleansUp ==
    ( \/ last.op = "connectFailed"
      \/ last.op = "connectAborted" /\ last.arg = "rejected" )
    => /\ status = [ message |-> "Connection failed", type |-> "error" ]
       /\ roomRef = 0
       /\ roomSt[last.a] \in { "none", "closed" }
       /\ connectionTimeoutRef = 0 /\ reconnectTimeoutRef = 0
       /\ \A a \in Attempts : ~connTimer[a] /\ ~reconTimer[a]
       /\ connectionState = initialConnectionState
       /\ ~isConnecting /\ ~isConnected

\* room.connect() of an attempt was rejected
C20_Witness ==
    /\ last.op = "connectFailed"
    /\ last.arg = "connect"
    /\ roomSt[last.a] = "closed"

\* C21: at most one analysis tap is connected at any time, and a connected
\* tap is the one analyserRef and analyserSourceRef reference: when a second
\* agent audio track is subscribed, the tap of the earlier one has been
\* disconnected.
C21_AtMostOneTapConnected ==
    /\ Cardinality(tapsConnected) <= 1
    /\ \A t \in tapsConnected : analyserRef = t /\ analyserSourceRef = t

\* C22: the analysis tap follows its track's subscription: the tap the refs
\* hold was built over a track that is still subscribed, the tap built over
\* the most recently subscribed track is held for as long as that track is
\* subscribed, and when a track stops being subscribed the audioPlaying
\* indicator is cleared.
C22_TapFollowsTrack ==
    /\ [](analyserRef # 0 => trackRoom[analyserRef] # 0)
    /\ []((nTracks > 0 /\ trackRoom[nTracks] # 0) => analyserRef = nTracks)
    /\ [][ \A t \in Tracks :
              (trackRoom[t] # 0 /\ trackRoom'[t] = 0) => ~audioPlaying' ]_vars

\* C23: setMicrophoneEnabled(true) is issued on a room only after that room
\* has emitted Connected: the acquisition of the Connected handler is pending
\* only on a room that has connected, and a toggleMute() that unmutes (the
\* step that clears isMuted and keeps roomRef; a teardown clears roomRef)
\* acts on a room that has connected.
C23_MicrophoneAfterConnected ==
    /\ [](\A a \in Attempts : mic[a] => roomSt[a] \notin { "none", "connecting" })
    /\ [][ (isMuted /\ ~isMuted' /\ roomRef # 0 /\ roomRef' = roomRef)
              => roomSt[roomRef] \notin { "none", "connecting" } ]_vars

\* C24: when the microphone acquisition of the Connected handler fails while
\* its room is connected and held, the session is not torn down: roomRef and
\* its listeners stay, the room stays connected, roomConnected stays true,
\* microphoneEnabled stays false, nothing is published, isConnected is
\* untouched, and the status reports the failure.
C24_MicrophoneFailureKeepsSession ==
    [][ \A a \in Attempts :
          (last'.op = "microphoneFailed" /\ last'.a = a
             /\ roomRef = a /\ listeners[a] /\ roomSt[a] = "connected")
          => /\ roomRef' = a
             /\ listeners'[a]
             /\ roomSt'[a] = "connected"
             /\ connectionState'.roomConnected
             /\ ~connectionState'.microphoneEnabled
             /\ ~connectionState'.readyForSpeech
             /\ connectionState' = connectionState
             /\ pub'[a] = "none"
             /\ isConnected' = isConnected
             /\ status' = [ message |-> "Microphone access failed", type |-> "error" ] ]_vars

C24_Witness ==
    /\ last.op = "microphoneFailed"
    /\ roomRef = last.a
    /\ listeners[last.a]
    /\ roomSt[last.a] = "connected"
    /\ connectionState.roomConnected
    /\ ~connectionState.microphoneEnabled

\* C25: after a well-formed packet whose type starts with 'tool-', the tool
\* indicator is visible and its label is the packet's tool field if it has
\* one, otherwise its name field, otherwise its message, otherwise the
\* generic label 'Tool used'.
C25_ToolLabelPrecedence ==
    (/\ last.op = "DataReceived"
     /\ ~Malformed(last.packet)
     /\ startsWith(last.packet.type, "tool-"))
    => /\ toolIndicator.isVisible
       /\ last.packet.tool # "" => toolIndicator.label = last.packet.tool
       /\ (last.packet.tool = "" /\ last.packet.name # "")
             => toolIndicator.label = last.packet.name
       /\ (last.packet.tool = "" /\ last.packet.name = "" /\ last.packet.message # "")
             => toolIndicator.label = last.packet.message
       /\ (last.packet.tool = "" /\ last.packet.name = "" /\ last.packet.message = "")
             => toolIndicator.label = "Tool used"

C25_Witness ==
    /\ last.op = "DataReceived"
    /\ startsWith(last.packet.type, "tool-")
    /\ last.packet.tool = ""
    /\ last.packet.name # ""
    /\ last.packet.message # ""
    /\ toolIndicator.isVisible
    /\ toolIndicator.label = last.packet.name

\* C26: after a packet whose type is exactly 'memory-fallback' the
\* memoryFallback flag is true, and once true it stays true: no step (hide
\* timer, later packet, teardown) clears it.
C26_MemoryFallbackSticky ==
    /\ [][ memoryFallback => memoryFallback' ]_vars
    /\ [] ( (/\ last.op = "DataReceived"
             /\ ~Malformed(last.packet)
             /\ last.packet.type = StringType(<< "memory-", "fallback" >>))
            => memoryFallback )

C26_Witness ==
    /\ memoryFallback
    /\ ~memoryIndicator.isVisible
    /\ memTimers = 0
    /\ last.op = "DataReceived"
    /\ startsWith(last.packet.type, "tool-")

\* C27: the reconnect delay for retry count n is min(1000 * 2^n, 10000) ms:
\* 1000 ms for n = 0, from one retry to the next it doubles up to the cap
\* (so it never decreases), it never exceeds 10000 ms, and it does not
\* depend on the elapsed time.
C27_ReconnectDelay ==
    /\ [] ( retryContext.retryCount = 0 => retryDelay = 1000 )
    /\ [] ( retryContext.retryCount >= 0
              => retryDelay >= 1000 /\ retryDelay <= 10000 )
    /\ [][ (retryContext.retryCount >= 0
              /\ retryContext'.retryCount = retryContext.retryCount + 1)
            => /\ retryDelay' >= retryDelay
               /\ retryDelay' = ( IF 2 * retryDelay <= 10000
                                  THEN 2 * retryDelay ELSE 10000 ) ]_vars

C27_Witness ==
    /\ retryContext.retryCount >= 5
    /\ retryContext.elapsedMs = 1000
    /\ retryDelay = 10000

\* C28: agentJoined and the connected report follow the agent's presence:
\* agentJoined is true only while an agent is in a room, and the step in
\* which the agent leaves a room that stays connected leaves agentJoined
\* false, readyForSpeech false, isConnected false and a status that is not
\* 'connected'.
C28_AgentPresenceTracked ==
    /\ [] ( connectionState.agentJoined => \E a \in Attempts : agentIn[a] )
    /\ [][ \A a \in Attempts :
              (agentIn[a] /\ ~agentIn'[a] /\ listeners'[a] /\ roomSt'[a] = "connected")
              => /\ ~connectionState'.agentJoined
                 /\ ~connectionState'.readyForSpeech
                 /\ ~agentReady'
                 /\ ~isConnected'
                 /\ status'.type # "connected" ]_vars

\* C29: the microphone request of the Connected handler that resolves after
\* its room was torn down changes no state: connectionState (so
\* microphoneEnabled stays false), the connection step and the status are as
\* the teardown left them.
C29_StaleMicrophoneResultIgnored ==
    [][ \A a \in Attempts :
          (mic[a] /\ ~mic'[a] /\ roomSt[a] = "closed")
          => /\ ~connectionState'.microphoneEnabled
             /\ UNCHANGED << connectionState, connectionStep, status >> ]_vars

\* C30: whenever isConnected is true, roomRef holds a room and that room is
\* one that has connected (the room whose events set isConnected); and a
\* Disconnected event of a room that is not the one in roomRef changes none
\* of connectionState, status and isConnected.
C30_ConnectedRoomIsCurrent ==
    /\ [] ( isConnected
              => /\ roomRef # 0
                 /\ roomSt[roomRef] \in { "connected", "reconnecting" } )
    /\ [][ \A a \in Attempts :
              (last'.op = "Disconnected" /\ last'.a = a /\ roomRef # a)
              => UNCHANGED << connectionState, status, isConnected >> ]_vars

====
